---- MODULE Spec2Model ----
(***************************************************************************)
(* Model of serve.py: a development file server.  MyHTTPRequestHandler     *)
(* overrides end_headers and adds do_OPTIONS on top of the standard        *)
(* library's SimpleHTTPRequestHandler; the main block binds a TCPServer,   *)
(* prints a banner and runs serve_forever until KeyboardInterrupt.         *)
(*                                                                         *)
(* The inherited request machinery (parse_request, send_error,            *)
(* send_response, send_header, the base end_headers, send_head, the       *)
(* TCPServer loop) is modelled from CPython 3.11's http/server.py and      *)
(* socketserver.py, which serve.py reaches through line 14 (the base       *)
(* class), line 27 (super().end_headers()), line 36 (TCPServer) and line   *)
(* 67 (serve_forever).                                                     *)
(*                                                                         *)
(* Strings the code inspects character by character (the request path)     *)
(* are sequences of one-character strings.  Writes to the client socket    *)
(* are assumed to succeed.                                                 *)
(***************************************************************************)
EXTENDS Integers, Sequences, FiniteSets, TLC

\* ------------------------------------------------------------------------
\* Bounds and program constants
\* ------------------------------------------------------------------------

\* Number of connections the environment offers before the model stops
\* accepting (connection ids are 1..MaxConns).
MaxConns == 2

\* serve.py line 12.
PORT == 8000

\* ------------------------------------------------------------------------
\* Request paths
\* ------------------------------------------------------------------------

Stems == { <<"/", "a">>, <<"/", "/", "a">> }

Exts ==
  { <<>>,
    <<".", "j", "s">>, <<".", "j", "s", "x">>, <<".", "j", "s", "o", "n">>,
    <<".", "J", "S">>, <<".", "J", "s", "o", "n">>,
    <<".", "h", "t", "m", "l">>, <<".", "c", "s", "s">> }

Trailers == { <<>>, <<"?", "v">>, <<"/">> }

Paths == { s \o e \o t : s \in Stems, e \in Exts, t \in Trailers }

\* str.endswith
EndsWith(p, suf) ==
  /\ Len(p) >= Len(suf)
  /\ SubSeq(p, Len(p) - Len(suf) + 1, Len(p)) = suf

\* str.startswith
StartsWith(p, pre) ==
  /\ Len(p) >= Len(pre)
  /\ SubSeq(p, 1, Len(pre)) = pre

\* str.lstrip('/')
RECURSIVE LStripSlash(_)
LStripSlash(p) ==
  IF p # <<>> /\ Head(p) = "/" THEN LStripSlash(Tail(p)) ELSE p

\* str.rstrip('/')
RECURSIVE RStripSlash(_)
RStripSlash(p) ==
  IF p # <<>> /\ p[Len(p)] = "/" THEN RStripSlash(SubSeq(p, 1, Len(p) - 1)) ELSE p

\* path.split('?', 1)[0]
RECURSIVE BeforeQuery(_)
BeforeQuery(p) ==
  IF p = <<>> \/ Head(p) = "?" THEN <<>> ELSE <<Head(p)>> \o BeforeQuery(Tail(p))

\* str.lower on the characters the paths use
LowerChar(c) ==
  CASE c = "J" -> "j"
    [] c = "S" -> "s"
    [] OTHER   -> c

Lower(p) == [i \in 1..Len(p) |-> LowerChar(p[i])]

\* posixpath.splitext(path)[1] for a one-component path
RECURSIVE ExtOf(_)
ExtOf(p) ==
  IF p = <<>> THEN <<>>
  ELSE IF p[Len(p)] = "." THEN <<".">>
  ELSE LET e == ExtOf(SubSeq(p, 1, Len(p) - 1))
       IN  IF e = <<>> THEN <<>> ELSE e \o <<p[Len(p)]>>

\* ------------------------------------------------------------------------
\* Requests
\* ------------------------------------------------------------------------

Methods == { "GET", "HEAD", "OPTIONS", "POST", "PUT" }

\* Last word of a request line of three or more words.
Versions == { "HTTP/1.0", "HTTP/1.1", "HTTP/2.0", "FOO" }

\* version.startswith('HTTP/') and two all-digit components
WellFormedVersion(v) == v \in { "HTTP/1.0", "HTTP/1.1", "HTTP/2.0" }

\* (int(major), int(minor))
VersionNumber(v) ==
  CASE v = "HTTP/1.0" -> <<1, 0>>
    [] v = "HTTP/1.1" -> <<1, 1>>
    [] v = "HTTP/2.0" -> <<2, 0>>
    [] OTHER          -> <<0, 0>>

\* Tuple comparison version_number >= (a, b)
VersionAtLeast(n, m) == n[1] > m[1] \/ (n[1] = m[1] /\ n[2] >= m[2])

\* What parse_headers finds after the request line.
HeaderBlocks == { "ok", "LineTooLong", "TooMany" }

\* A request as the handler reads it from the connection:
\*   toolong  the first line exceeds 65536 bytes
\*   nwords   len(requestline.split()), 4 standing for "more than three"
\*   method   words[0], path words[1], version words[-1] (when nwords >= 3)
\*   hdrs     the header block
\*   fresh    If-Modified-Since is present, well formed, not older than the
\*            file's mtime, and If-None-Match is absent
Requests ==
  [ toolong : BOOLEAN, nwords : 0..4, method : Methods, path : Paths,
    version : Versions, hdrs : HeaderBlocks, fresh : BOOLEAN ]

\* Fields that the request line does not carry are fixed, so that two
\* records never denote the same bytes on the wire.
Canonical(r) ==
  LET parsed == ~r.toolong /\ r.nwords \in {2, 3}
                /\ (r.nwords = 2 => r.method = "GET")
                /\ (r.nwords = 3 => r.version \in {"HTTP/1.0", "HTTP/1.1"})
  IN  /\ r.toolong => r.nwords = 3
      /\ r.nwords = 0 => r.method = "GET" /\ r.path = <<"/", "a">>
      /\ r.nwords = 1 => r.path = <<"/", "a">>
      /\ r.nwords < 3 => r.version = "HTTP/1.0"
      /\ ~parsed => r.hdrs = "ok"
      /\ r.fresh => parsed /\ r.hdrs = "ok" /\ r.method \in {"GET", "HEAD"}

\* What the serving root holds at the translated path while the request is
\* handled: a readable file, nothing, a file open() refuses, a directory
\* without index.html/index.htm, a directory with index.html.
DiskEntries == { "file", "missing", "unreadable", "dir", "dirindex" }

\* ------------------------------------------------------------------------
\* Handler objects (BaseHTTPRequestHandler state)
\* ------------------------------------------------------------------------

NoBody == [kind |-> "none", code |-> 0, rel |-> <<>>]

StatusLine(code) == [k |-> ":status", v |-> "", code |-> code]
HeaderLine(k, v) == [k |-> k, v |-> v, code |-> 0]

\* A fresh handler instance of class cls ("My" for MyHTTPRequestHandler,
\* "Simple" for the stock SimpleHTTPRequestHandler) with the serving root
\* it was constructed with.  path and _headers_buffer do not exist yet.
NewHandler(cls, dir) ==
  [ cls |-> cls, directory |-> dir,
    request_version |-> "HTTP/0.9", command |-> "None",
    hasPath |-> FALSE, path |-> <<>>,
    hasBuf |-> FALSE, buf |-> <<>>,
    wire |-> <<>>, logged |-> <<>>,
    raised |-> FALSE, fsAccess |-> FALSE ]

\* Header names are case-insensitive on the wire.
LowerName(k) ==
  CASE k = "Content-type" -> "content-type"
    [] k = "Content-Type" -> "content-type"
    [] OTHER              -> k

\* BaseHTTPRequestHandler.send_response_only
SendResponseOnly(h, code) ==
  IF h.raised \/ h.request_version = "HTTP/0.9" THEN h
  ELSE [h EXCEPT !.hasBuf = TRUE, !.buf = Append(h.buf, StatusLine(code))]

\* BaseHTTPRequestHandler.send_header
SendHeader(h, k, v) ==
  IF h.raised \/ h.request_version = "HTTP/0.9" THEN h
  ELSE [h EXCEPT !.hasBuf = TRUE, !.buf = Append(h.buf, HeaderLine(k, v))]

\* BaseHTTPRequestHandler.send_response (log_request, status line, Server, Date)
SendResponse(h, code) ==
  IF h.raised THEN h
  ELSE LET h1 == [h EXCEPT !.logged = Append(h.logged, code)]
           h2 == SendResponseOnly(h1, code)
           h3 == SendHeader(h2, "Server", "SimpleHTTP")
       IN  SendHeader(h3, "Date", "now")

\* BaseHTTPRequestHandler.flush_headers
FlushHeaders(h) ==
  IF h.hasBuf
  THEN [h EXCEPT !.wire = Append(h.wire, [t |-> "head", lines |-> h.buf, body |-> NoBody]),
                 !.buf = <<>>]
  ELSE h

\* BaseHTTPRequestHandler.end_headers
BaseEndHeaders(h) ==
  IF h.raised \/ h.request_version = "HTTP/0.9" THEN h
  ELSE FlushHeaders([h EXCEPT !.hasBuf = TRUE, !.buf = Append(h.buf, HeaderLine("", ""))])

\* self.wfile.write(body) / copyfile
WriteBody(h, b) ==
  IF h.raised THEN h
  ELSE [h EXCEPT !.wire = Append(h.wire, [t |-> "body", lines |-> <<>>, body |-> b])]

JsType   == "application/javascript; charset=utf-8"
JsonType == "application/json; charset=utf-8"

\* Variant of IsJsPath: the suffix is compared without regard to case.
IsJsPathAnyCase(p) ==
  EndsWith(Lower(p), <<".", "j", "s">>) \/ EndsWith(Lower(p), <<".", "j", "s", "x">>)

\* The test of line 22.
IsJsPath(p) == EndsWith(p, <<".", "j", "s">>) \/ EndsWith(p, <<".", "j", "s", "x">>)

\* The test of line 24.
IsJsonPath(p) == EndsWith(p, <<".", "j", "s", "o", "n">>)

\* MyHTTPRequestHandler.end_headers (lines 15-27).  Reading self.path on a
\* handler that never assigned it raises AttributeError.
EndHeaders(h) ==
  IF h.raised THEN h
  ELSE LET h1 == SendHeader(h, "Access-Control-Allow-Origin", "*")
           h2 == SendHeader(h1, "Access-Control-Allow-Methods", "GET, POST, OPTIONS")
           h3 == SendHeader(h2, "Access-Control-Allow-Headers", "Content-Type")
       IN  IF ~h3.hasPath THEN [h3 EXCEPT !.raised = TRUE]
           ELSE IF IsJsPath(h3.path)
                THEN BaseEndHeaders(SendHeader(h3, "Content-Type", JsType))
           ELSE IF IsJsonPath(h3.path)
                THEN BaseEndHeaders(SendHeader(h3, "Content-Type", JsonType))
           ELSE BaseEndHeaders(h3)

\* self.end_headers(): dispatch on the handler's class.
CallEndHeaders(h) ==
  IF h.cls = "My" THEN EndHeaders(h) ELSE BaseEndHeaders(h)

ErrorBody(code) == [kind |-> "error", code |-> code, rel |-> <<>>]

\* BaseHTTPRequestHandler.send_error
SendError(h, code) ==
  IF h.raised THEN h
  ELSE LET h1 == SendResponse(h, code)
           h2 == SendHeader(h1, "Connection", "close")
           hasBody == code >= 200 /\ code \notin {204, 205, 304}
           h3 == IF hasBody
                 THEN SendHeader(SendHeader(h2, "Content-Type", "text/html;charset=utf-8"),
                                 "Content-Length", "len")
                 ELSE h2
           h4 == CallEndHeaders(h3)
       IN  IF h4.command # "HEAD" /\ hasBody THEN WriteBody(h4, ErrorBody(code)) ELSE h4

\* BaseHTTPRequestHandler.parse_request.  The result is the handler and
\* the return value.  protocol_version is "HTTP/1.0", so close_connection
\* stays True (one request per connection) and Expect: 100-continue is
\* never answered.
ParseRequest(h, r) ==
  LET version == r.version
      vn      == VersionNumber(version)
      h1 == IF r.nwords >= 3 THEN [h EXCEPT !.request_version = version] ELSE h
      p0 == r.path
      p1 == IF StartsWith(p0, <<"/", "/">>) THEN <<"/">> \o LStripSlash(p0) ELSE p0
      h2 == [h1 EXCEPT !.command = r.method, !.hasPath = TRUE, !.path = p1]
  IN  IF r.nwords = 0 THEN [h |-> h, ok |-> FALSE]
      ELSE IF r.nwords >= 3 /\ ~WellFormedVersion(version)
        THEN [h |-> SendError(h, 400), ok |-> FALSE]
      ELSE IF r.nwords >= 3 /\ VersionAtLeast(vn, <<2, 0>>)
        THEN [h |-> SendError(h, 505), ok |-> FALSE]
      ELSE IF ~(2 <= r.nwords /\ r.nwords <= 3)
        THEN [h |-> SendError(h1, 400), ok |-> FALSE]
      ELSE IF r.nwords = 2 /\ r.method # "GET"
        THEN [h |-> SendError(h1, 400), ok |-> FALSE]
      ELSE IF r.hdrs # "ok"
        THEN [h |-> SendError(h2, 431), ok |-> FALSE]
      ELSE [h |-> h2, ok |-> TRUE]

\* SimpleHTTPRequestHandler.translate_path: the query is dropped, the path
\* is normalised under the handler's directory and a trailing slash is kept.
TranslatePath(h) ==
  LET q == BeforeQuery(h.path)
  IN  [ root |-> h.directory,
        rel |-> RStripSlash(LStripSlash(q)),
        trailing |-> EndsWith(q, <<"/">>) ]

\* SimpleHTTPRequestHandler.guess_type: by the lower-cased extension.
GuessType(rel) ==
  LET ext == Lower(ExtOf(rel))
  IN  CASE ext = <<".", "j", "s">>                -> "text/javascript"
        [] ext = <<".", "j", "s", "o", "n">>      -> "application/json"
        [] ext = <<".", "h", "t", "m", "l">>      -> "text/html"
        [] ext = <<".", "c", "s", "s">>           -> "text/css"
        [] OTHER                                  -> "application/octet-stream"

FileBody(t)    == [kind |-> "file", code |-> 0, rel |-> t.rel]
ListingBody(t) == [kind |-> "listing", code |-> 0, rel |-> t.rel]

IndexHtml == <<"/", "i", "n", "d", "e", "x", ".", "h", "t", "m", "l">>

\* SimpleHTTPRequestHandler.send_head (with list_directory).  The result is
\* the handler and the file object f to copy (NoBody for None).
SendHead(h, r, disk) ==
  LET h0 == [h EXCEPT !.fsAccess = TRUE]
      t0 == TranslatePath(h0)
      isdir == disk \in {"dir", "dirindex"}
      t  == IF disk = "dirindex"
            THEN [t0 EXCEPT !.rel = t0.rel \o IndexHtml, !.trailing = FALSE]
            ELSE t0
      ctype == GuessType(t.rel)
      h301 == CallEndHeaders(
                SendHeader(SendHeader(SendResponse(h0, 301), "Location", "slash"),
                           "Content-Length", "0"))
      hlist == CallEndHeaders(
                 SendHeader(SendHeader(SendResponse(h0, 200),
                                       "Content-type", "text/html; charset=utf-8"),
                            "Content-Length", "len"))
      h304 == CallEndHeaders(SendResponse(h0, 304))
      h200 == CallEndHeaders(
                SendHeader(SendHeader(SendHeader(SendResponse(h0, 200),
                                                 "Content-type", ctype),
                                      "Content-Length", "len"),
                           "Last-Modified", "mtime"))
  IN  IF isdir /\ ~t0.trailing THEN [h |-> h301, f |-> NoBody]
      ELSE IF disk = "dir" THEN [h |-> hlist, f |-> ListingBody(t0)]
      ELSE IF t.trailing THEN [h |-> SendError(h0, 404), f |-> NoBody]
      ELSE IF disk \in {"missing", "unreadable"}
        THEN [h |-> SendError(h0, 404), f |-> NoBody]
      ELSE IF r.fresh THEN [h |-> h304, f |-> NoBody]
      ELSE [h |-> h200, f |-> FileBody(t)]

\* SimpleHTTPRequestHandler.do_GET
DoGET(h, r, disk) ==
  LET s == SendHead(h, r, disk)
  IN  IF s.f # NoBody THEN WriteBody(s.h, s.f) ELSE s.h

\* SimpleHTTPRequestHandler.do_HEAD
DoHEAD(h, r, disk) == SendHead(h, r, disk).h

\* Variant of DoOPTIONS: the preflight is answered like a HEAD request.
DoOPTIONSLikeHead(h, r, disk) == SendHead(h, r, disk).h

\* MyHTTPRequestHandler.do_OPTIONS (lines 29-31)
DoOPTIONS(h, r, disk) == CallEndHeaders(SendResponse(h, 200))

\* hasattr(self, 'do_' + command)
HasMethod(h) ==
  \/ h.command \in {"GET", "HEAD"}
  \/ h.cls = "My" /\ h.command = "OPTIONS"

\* BaseHTTPRequestHandler.handle_one_request, run once by handle().
HandleOneRequest(h, r, disk) ==
  IF r.toolong
  THEN SendError([h EXCEPT !.request_version = "", !.command = ""], 414)
  ELSE LET p == ParseRequest(h, r)
       IN  IF ~p.ok THEN p.h
           ELSE IF ~HasMethod(p.h) THEN SendError(p.h, 501)
           ELSE IF p.h.command = "GET" THEN DoGET(p.h, r, disk)
           ELSE IF p.h.command = "HEAD" THEN DoHEAD(p.h, r, disk)
           ELSE DoOPTIONS(p.h, r, disk)

\* ------------------------------------------------------------------------
\* What the client receives
\* ------------------------------------------------------------------------

RECURSIVE HeadLines(_)
HeadLines(w) ==
  IF w = <<>> THEN <<>>
  ELSE (IF Head(w).t = "head" THEN Head(w).lines ELSE <<>>) \o HeadLines(Tail(w))

IsHeader(l) == l.k \notin {":status", ""}

\* A status line and header block were written.
HasHead(h) == \E i \in 1..Len(h.wire) : h.wire[i].t = "head"

StatusOf(h) ==
  LET st == SelectSeq(HeadLines(h.wire), LAMBDA l : l.k = ":status")
  IN  IF st = <<>> THEN 0 ELSE st[1].code

HeadersOf(h) == SelectSeq(HeadLines(h.wire), IsHeader)

\* The values of the headers called name, in wire order.
HeaderValues(h, name) ==
  LET hs == SelectSeq(HeadersOf(h), LAMBDA l : LowerName(l.k) = LowerName(name))
  IN  [i \in 1..Len(hs) |-> hs[i].v]

BodyOf(h) ==
  LET bs == SelectSeq(h.wire, LAMBDA x : x.t = "body")
  IN  IF bs = <<>> THEN NoBody ELSE bs[1].body

\* ------------------------------------------------------------------------
\* The program: the __main__ block and the TCPServer loop
\* ------------------------------------------------------------------------

VARIABLES
  pc,         \* position of the main thread
  sock,       \* the listening socket: "none", "listening", "closed"
  bind,       \* outcome of server_bind: "pending", "ok", "error"
  port,       \* the port the socket is bound to, 0 when unbound
  directory,  \* the serving root captured in Handler (line 34), "" before
  console,    \* what was printed, in order (stdout and stderr)
  exitCode,   \* exit status of the process, -1 while it runs
  conns,      \* accepted connections that are not closed yet
  nextId,     \* id of the next connection to accept
  wirelog     \* connection events in the order they happened

vars == <<pc, sock, bind, port, directory, console, exitCode, conns, nextId, wirelog>>

\* os.getcwd() when the process starts.
Cwd == "cwd"

Printed(x) == \E i \in 1..Len(console) : console[i] = x

Init ==
  /\ pc = "init"
  /\ sock = "none"
  /\ bind = "pending"
  /\ port = 0
  /\ directory = ""
  /\ console = <<>>
  /\ exitCode = -1
  /\ conns = {}
  /\ nextId = 1
  /\ wirelog = <<>>

\* Variant of Startup: a failed bind is swallowed and the script goes on.
StartupIgnoringBindError ==
  /\ pc = "init"
  /\ directory' = Cwd
  /\ \E ok \in BOOLEAN :
       /\ bind' = IF ok THEN "ok" ELSE "error"
       /\ sock' = IF ok THEN "listening" ELSE "closed"
       /\ port' = IF ok THEN PORT ELSE 0
       /\ pc' = "banner"
  /\ UNCHANGED <<console, exitCode, conns, nextId, wirelog>>

\* Lines 34-36: Handler captures the working directory; TCPServer.__init__
\* creates the socket, binds and listens.  When bind raises OSError the
\* constructor closes the socket and re-raises; nothing catches it, so the
\* interpreter prints the traceback and exits with status 1.
Startup ==
  /\ pc = "init"
  /\ directory' = Cwd
  /\ \E ok \in BOOLEAN :
       IF ok
       THEN /\ bind' = "ok"
            /\ sock' = "listening"
            /\ port' = PORT
            /\ pc' = "banner"
            /\ UNCHANGED <<console, exitCode>>
       ELSE /\ bind' = "error"
            /\ sock' = "closed"
            /\ port' = 0
            /\ console' = Append(console, "traceback")
            /\ exitCode' = 1
            /\ pc' = "done"
  /\ UNCHANGED <<conns, nextId, wirelog>>

\* Lines 37-64, then line 66-67: enter serve_forever.
PrintBanner ==
  /\ pc = "banner"
  /\ console' = Append(console, "banner")
  /\ pc' = "serving"
  /\ UNCHANGED <<sock, bind, port, directory, exitCode, conns, nextId, wirelog>>

\* KeyboardInterrupt inside the with block but before the try of line 66:
\* nothing catches it; __exit__ closes the socket and the interpreter dies
\* of the interrupt.
InterruptBanner ==
  /\ pc = "banner"
  /\ sock' = "closed"
  /\ console' = Append(console, "traceback")
  /\ exitCode' = 130
  /\ pc' = "done"
  /\ UNCHANGED <<bind, port, directory, conns, nextId, wirelog>>

\* Variant of CanAccept: connections are accepted while one is in flight.
CanAcceptWhileBusy == TRUE

\* TCPServer is the synchronous server: _handle_request_noblock runs
\* process_request (finish_request, then shutdown_request) before
\* serve_forever selects again.
CanAccept == conns = {}

\* serve_forever: select reports the socket readable, get_request accepts.
Accept ==
  /\ pc = "serving"
  /\ CanAccept
  /\ nextId <= MaxConns
  /\ \E r \in Requests :
       /\ Canonical(r)
       /\ conns' = conns \cup
            { [ id |-> nextId, req |-> r, disk |-> "unread", state |-> "accepted",
                h |-> NewHandler("My", directory),
                base |-> NewHandler("Simple", directory) ] }
  /\ wirelog' = Append(wirelog, <<nextId, "accept">>)
  /\ nextId' = nextId + 1
  /\ UNCHANGED <<pc, sock, bind, port, directory, console, exitCode>>

WireEvents(id, h) ==
  (IF HasHead(h) THEN << <<id, "head">> >> ELSE <<>>)
  \o (IF BodyOf(h) # NoBody THEN << <<id, "body">> >> ELSE <<>>)

\* finish_request: the handler object is constructed and handles the one
\* request of the connection.  An exception escaping it is reported by
\* handle_error (a traceback on stderr).  base is what the stock
\* SimpleHTTPRequestHandler answers to the same request on the same disk.
Handle ==
  /\ pc = "serving"
  /\ \E c \in conns, disk \in DiskEntries :
       /\ c.state = "accepted"
       /\ LET h == HandleOneRequest(c.h, c.req, disk)
              b == HandleOneRequest(c.base, c.req, disk)
          IN  /\ conns' = (conns \ {c}) \cup
                   { [c EXCEPT !.state = "handled", !.disk = disk, !.h = h, !.base = b] }
              /\ wirelog' = wirelog \o WireEvents(c.id, h)
              /\ console' = IF h.raised THEN Append(console, "traceback") ELSE console
  /\ UNCHANGED <<pc, sock, bind, port, directory, exitCode, nextId>>

\* shutdown_request: the connection is closed.
Close ==
  /\ pc = "serving"
  /\ \E c \in conns :
       /\ c.state = "handled"
       /\ conns' = conns \ {c}
       /\ wirelog' = Append(wirelog, <<c.id, "close">>)
  /\ UNCHANGED <<pc, sock, bind, port, directory, console, exitCode, nextId>>

\* KeyboardInterrupt inside serve_forever (line 67).  A connection in
\* flight is closed by the bare except of _handle_request_noblock and the
\* exception goes on to line 68.
Interrupt ==
  /\ pc = "serving"
  /\ pc' = "caught"
  /\ conns' = {}
  /\ wirelog' = IF conns = {} THEN wirelog
                ELSE Append(wirelog, <<(CHOOSE c \in conns : TRUE).id, "dropped">>)
  /\ UNCHANGED <<sock, bind, port, directory, console, exitCode, nextId>>

\* Variant of PrintAck: the except body only passes.
PrintAckSilent ==
  /\ pc = "caught"
  /\ pc' = "exiting"
  /\ UNCHANGED <<sock, bind, port, directory, console, exitCode, conns, nextId, wirelog>>

\* Lines 68-70.
PrintAck ==
  /\ pc = "caught"
  /\ console' = Append(console, "stopped")
  /\ pc' = "exiting"
  /\ UNCHANGED <<sock, bind, port, directory, exitCode, conns, nextId, wirelog>>

\* Leaving the with block of line 36: __exit__ calls server_close.
ServerClose ==
  /\ pc = "exiting"
  /\ sock' = "closed"
  /\ pc' = "closed"
  /\ UNCHANGED <<bind, port, directory, console, exitCode, conns, nextId, wirelog>>

\* The script ends.
Exit ==
  /\ pc = "closed"
  /\ exitCode' = 0
  /\ pc' = "done"
  /\ UNCHANGED <<sock, bind, port, directory, console, conns, nextId, wirelog>>

Next ==
  \/ Startup
  \/ PrintBanner
  \/ InterruptBanner
  \/ Accept
  \/ Handle
  \/ Close
  \/ Interrupt
  \/ PrintAck
  \/ ServerClose
  \/ Exit

Spec == Init /\ [][Next]_vars

\* The main thread keeps running: once the interrupt is caught, the except
\* body, the with exit and the end of the script are executed.
FairSpec ==
  Spec /\ WF_vars(PrintAck) /\ WF_vars(ServerClose) /\ WF_vars(Exit)

Handled == { c \in conns : c.state = "handled" }

TypeOK ==
  /\ pc \in {"init", "banner", "serving", "caught", "exiting", "closed", "done"}
  /\ sock \in {"none", "listening", "closed"}
  /\ nextId \in 1..(MaxConns + 1)

\* ------------------------------------------------------------------------
\* Properties
\* ------------------------------------------------------------------------

\* The three CORS headers, each once, with the literal values of lines 17-19.
HasCors(h) ==
  /\ HeaderValues(h, "Access-Control-Allow-Origin") = <<"*">>
  /\ HeaderValues(h, "Access-Control-Allow-Methods") = <<"GET, POST, OPTIONS">>
  /\ HeaderValues(h, "Access-Control-Allow-Headers") = <<"Content-Type">>

ContentTypes(h) == HeaderValues(h, "Content-Type")

\* The request line and the header block parse: METHOD path HTTP/1.x.
Parsed(r) ==
  /\ ~r.toolong
  /\ r.nwords = 3
  /\ r.version \in {"HTTP/1.0", "HTTP/1.1"}
  /\ r.hdrs = "ok"

\* C1: every request whose request line carries a protocol version (three
\* or more words, or an overlong line) and for which the handler chose an
\* outcome (a status was passed to send_response, request-line errors
\* included) gets a response whose header block carries the three CORS
\* headers with their exact values.
C1_EveryResponseCarriesCors ==
  \A c \in Handled :
    c.req.nwords >= 3 /\ c.h.logged # <<>> => HasHead(c.h) /\ HasCors(c.h)

\* C2: for a request whose path ends in .js or .jsx that is answered with
\* a header block, the Content-Type of the response is
\* application/javascript; charset=utf-8 and nothing else.
C2_JsContentType ==
  \A c \in Handled :
    IsJsPath(c.req.path) /\ HasHead(c.h) => ContentTypes(c.h) = <<JsType>>

\* C3: for a request whose path ends in .json that is answered with a
\* header block, the Content-Type of the response is
\* application/json; charset=utf-8 and nothing else (in particular not the
\* JavaScript type).
C3_JsonContentType ==
  \A c \in Handled :
    IsJsonPath(c.req.path) /\ HasHead(c.h) => ContentTypes(c.h) = <<JsonType>>

OptionsAnswer(c) ==
  /\ StatusOf(c.h) = 200
  /\ HasCors(c.h)
  /\ BodyOf(c.h) = NoBody
  /\ ~c.h.fsAccess

\* C4 as stated: any OPTIONS request with a well-formed request line is
\* answered with 200, the CORS headers, an empty body and no filesystem
\* access.
C4_AnyOptionsRequest ==
  \A c \in Handled :
    /\ c.req.method = "OPTIONS"
    /\ ~c.req.toolong /\ c.req.nwords = 3
    /\ c.req.version \in {"HTTP/1.0", "HTTP/1.1"}
    => OptionsAnswer(c)

\* C4 as amended: any OPTIONS request whose request line and header block
\* parse is answered with 200, the three CORS headers and an empty body,
\* whatever the disk holds at the path, without touching the filesystem.
C4_ParsedOptionsRequest ==
  \A c \in Handled :
    c.req.method = "OPTIONS" /\ Parsed(c.req) => OptionsAnswer(c) /\ ~c.h.raised

C4_Witness ==
  \E c \in Handled :
    /\ c.req.method = "OPTIONS" /\ Parsed(c.req)
    /\ c.disk = "missing"
    /\ IsJsonPath(c.req.path)
    /\ StatusOf(c.h) = 200

\* C5: when the port cannot be bound the process has ended with a non-zero
\* status, the banner was never printed, no connection was ever accepted
\* and the socket is closed.
C5_BindFailureIsFatal ==
  bind = "error" =>
    /\ pc = "done"
    /\ exitCode > 0
    /\ ~Printed("banner")
    /\ sock = "closed"
    /\ nextId = 1 /\ conns = {}

C5_Witness == bind = "error" /\ exitCode = 1

NothingServedAfterInterrupt ==
  pc \in {"caught", "exiting", "closed", "done"}
    => (nextId' = nextId /\ conns' = conns /\ wirelog' = wirelog)

PortAndRootFixed == pc # "init" => (port' = port /\ directory' = directory)

AcceptOnlyWhenIdle == nextId' # nextId => conns = {}

\* C6: an interrupt caught in the serving loop leads to the process having
\* ended with exit code 0, the acknowledgment printed and the listening
\* socket closed; the socket is still open until the acknowledgment is
\* printed, and no connection is accepted or handled after the interrupt.
C6_InterruptShutsDown ==
  /\ (pc = "caught") ~> (/\ pc = "done" /\ exitCode = 0
                         /\ sock = "closed" /\ Printed("stopped"))
  /\ [](pc = "caught" => sock = "listening" /\ conns = {})
  /\ [](pc \in {"exiting", "closed"} \/ (pc = "done" /\ exitCode = 0)
          => Printed("stopped"))
  /\ [](pc = "exiting" => sock = "listening")
  /\ [][NothingServedAfterInterrupt]_vars

C6_Witness ==
  /\ pc = "done" /\ exitCode = 0
  /\ \E i \in 1..Len(wirelog) : wirelog[i][2] = "dropped"

\* C7: for a GET request (a request line with the method GET and a path)
\* the status and the body the client receives are those the stock
\* static-file handler sends for the same request.
C7_GetStatusAndBodyUntouched ==
  \A c \in Handled :
    c.req.method = "GET" /\ c.req.nwords >= 2 =>
      /\ StatusOf(c.h) = StatusOf(c.base)
      /\ BodyOf(c.h) = BodyOf(c.base)

\* The Content-Type headers the underlying code emits for the request: none
\* in do_OPTIONS, those of the stock handler otherwise.
UnderlyingContentTypes(c) ==
  IF c.h.command = "OPTIONS" /\ StatusOf(c.h) = 200 THEN <<>>
  ELSE ContentTypes(c.base)

\* The request path does not end in exactly .js, .jsx or .json.
OtherSuffix(p) ==
  /\ ~EndsWith(p, <<".", "j", "s">>)
  /\ ~EndsWith(p, <<".", "j", "s", "x">>)
  /\ ~EndsWith(p, <<".", "j", "s", "o", "n">>)

\* C8: for a request whose path does not end in exactly .js, .jsx or .json
\* the response carries no Content-Type header besides those of the
\* underlying handler, with their values unchanged.
C8_OtherSuffixesUntouched ==
  \A c \in Handled :
    OtherSuffix(c.req.path) =>
      /\ HasHead(c.h) => ContentTypes(c.h) = UnderlyingContentTypes(c)
      /\ ~HasHead(c.h) => ContentTypes(c.h) = <<>>

C8_Witness ==
  \E c \in Handled :
    /\ EndsWith(c.req.path, <<".", "J", "S">>)
    /\ c.req.method = "GET" /\ c.disk = "file"
    /\ StatusOf(c.h) = 200
    /\ ContentTypes(c.h) = <<"text/javascript">>

\* C9: when the underlying handler emitted a Content-Type of its own for a
\* .js/.jsx/.json path, the response has exactly one Content-Type header
\* and its value is the overriding one.
C9_ContentTypeOverridden ==
  \A c \in Handled :
    /\ IsJsPath(c.req.path) \/ IsJsonPath(c.req.path)
    /\ HasHead(c.h)
    /\ UnderlyingContentTypes(c) # <<>>
    => /\ Len(ContentTypes(c.h)) = 1
       /\ ContentTypes(c.h)[1] = IF IsJsPath(c.req.path) THEN JsType ELSE JsonType

\* Events of one connection are not separated by events of another.
Contiguous ==
  \A i, j, k \in 1..Len(wirelog) :
    i < j /\ j < k /\ wirelog[i][1] = wirelog[k][1] => wirelog[j][1] = wirelog[i][1]

\* C10: at most one connection is open at any moment, a connection is
\* closed before the next is accepted, the events of two connections never
\* interleave, and the bound port and the serving root never change after
\* startup.
C10_OneConnectionAtATime ==
  /\ [](Cardinality(conns) <= 1)
  /\ [](Contiguous)
  /\ [](bind = "ok" => port = PORT)
  /\ [](pc # "init" => directory = Cwd /\ \A c \in conns : c.h.directory = Cwd)
  /\ [][AcceptOnlyWhenIdle]_vars
  /\ [][PortAndRootFixed]_vars

C10_Witness ==
  /\ nextId = 3
  /\ \E c \in Handled : c.id = 2 /\ HasHead(c.h) /\ BodyOf(c.h) # NoBody
  /\ \E i \in 1..Len(wirelog) : wirelog[i] = <<1, "close">>

====
